---- MODULE Spec2Model ----
(***************************************************************************)
(* A model of the CHIP-8 interpreter core of src/chip8/cpu.go: the Chip8   *)
(* struct, its constructor New, the host operations LoadROM, SetKey,       *)
(* GetDisplay and DrawFlag, and the step EmulateCycle with the whole       *)
(* instruction table of executeOpcode and drawSprite.                      *)
(*                                                                         *)
(* Go integer widths are kept: uint8 arithmetic is taken modulo 256 and    *)
(* uint16 arithmetic modulo 65536.  An index outside an array is a Go      *)
(* run-time panic: the operation stops where it is, with the assignments   *)
(* made so far in place, and the machine is marked panicked.               *)
(*                                                                         *)
(* The two large arrays, memory and display, are held by their nonzero     *)
(* entries only: a function from the indices that hold a nonzero value to  *)
(* that value.  Get reads an entry, Put writes one; two arrays are equal   *)
(* exactly when their representations are.                                 *)
(***************************************************************************)
EXTENDS Integers, Sequences, FiniteSets, TLC

\* ------------------------------------------------------------ constants
MemorySize == 4096

RegisterCount == 16

StackSize == 16

ScreenWidth == 64

ScreenHeight == 32

FontsetSize == 80

\* 0x200, where programs start (cpu.go:69, 80, 84)
ProgramStart == 512

\* ------------------------------------------------------------ bounds
\* Under Spec, where the host may load a rom at any time, EmulateCycle is
\* called at most MaxSteps times in a run and LoadROM at most MaxLoads times.
MaxSteps == 4

MaxLoads == 2

\* Under RunSpec, where one program is loaded and then run, EmulateCycle is
\* called at most MaxRunSteps times.
MaxRunSteps == 6

\* ------------------------------------------------------------ uint8 / uint16
U8(v) == v % 256

U16(v) == v % 65536

Bit(v, k) == (v \div (2 ^ k)) % 2

BitAnd(a, b) ==
  LET f[k \in 0..8] ==
        IF k = 8 THEN 0
        ELSE (IF Bit(a, k) = 1 /\ Bit(b, k) = 1 THEN 2 ^ k ELSE 0) + f[k + 1]
  IN f[0]

BitOr(a, b) ==
  LET f[k \in 0..8] ==
        IF k = 8 THEN 0
        ELSE (IF Bit(a, k) = 1 \/ Bit(b, k) = 1 THEN 2 ^ k ELSE 0) + f[k + 1]
  IN f[0]

BitXor(a, b) ==
  LET f[k \in 0..8] ==
        IF k = 8 THEN 0
        ELSE (IF Bit(a, k) # Bit(b, k) THEN 2 ^ k ELSE 0) + f[k + 1]
  IN f[0]

\* ------------------------------------------------------------ arrays
\* arr[i], for an array held by its nonzero entries
Get(arr, i) == IF i \in DOMAIN arr THEN arr[i] ELSE 0

\* arr[i] = v
Put(arr, i, v) ==
  [j \in (IF v = 0 THEN DOMAIN arr \ {i} ELSE DOMAIN arr \cup {i}) |->
     IF j = i THEN v ELSE arr[j]]

\* The array whose every entry is zero.
Zeroed == [j \in {} |-> 0]

\* ------------------------------------------------------------ fontset
fontset ==
  << 240, 144, 144, 144, 240,    \* 0
     32,  96,  32,  32,  112,    \* 1
     240, 16,  240, 128, 240,    \* 2
     240, 16,  240, 16,  240,    \* 3
     144, 144, 240, 16,  16,     \* 4
     240, 128, 240, 16,  240,    \* 5
     240, 128, 240, 144, 240,    \* 6
     240, 16,  32,  64,  64,     \* 7
     240, 144, 240, 144, 240,    \* 8
     240, 144, 240, 16,  240,    \* 9
     240, 144, 240, 144, 144,    \* A
     224, 144, 224, 144, 224,    \* B
     240, 128, 128, 128, 240,    \* C
     224, 144, 144, 144, 224,    \* D
     240, 128, 240, 128, 240,    \* E
     240, 128, 240, 128, 128 >>  \* F

\* ------------------------------------------------------------ state
VARIABLES
  memory,      \* [MemorySize]uint8, by its nonzero entries
  V,           \* [RegisterCount]uint8, V[15] is the flag register
  I,           \* uint16 index register
  PC,          \* uint16 program counter
  stack,       \* [StackSize]uint16
  SP,          \* uint8 stack pointer
  delayTimer,  \* uint8
  soundTimer,  \* uint8
  display,     \* [ScreenWidth * ScreenHeight]uint8, by its nonzero entries
  keys,        \* [16]bool
  drawFlag,    \* bool
  panicked,    \* a run-time panic (index out of range) ended the last call
  last,        \* the last call of the host: its name, arguments and result
  steps,       \* number of EmulateCycle calls so far
  loads        \* number of LoadROM calls so far

machineVars ==
  << memory, V, I, PC, stack, SP, delayTimer, soundTimer, display, keys,
     drawFlag, panicked >>

vars == << memory, V, I, PC, stack, SP, delayTimer, soundTimer, display, keys,
           drawFlag, panicked, last, steps, loads >>

\* The Chip8 struct as one value, for the operators that compute a call.
Machine ==
  [ memory |-> memory, V |-> V, I |-> I, PC |-> PC, stack |-> stack, SP |-> SP,
    delayTimer |-> delayTimer, soundTimer |-> soundTimer, display |-> display,
    keys |-> keys, drawFlag |-> drawFlag, panicked |-> panicked ]

\* The struct New() returns: zero value, PC = 0x200, fontset at 0x000.
New ==
  [ memory |-> [a \in {b \in 0..(FontsetSize - 1) : fontset[b + 1] # 0} |->
                  fontset[a + 1]],
    V |-> [r \in 0..(RegisterCount - 1) |-> 0],
    I |-> 0,
    PC |-> ProgramStart,
    stack |-> [s \in 0..(StackSize - 1) |-> 0],
    SP |-> 0,
    delayTimer |-> 0,
    soundTimer |-> 0,
    display |-> Zeroed,
    keys |-> [k \in 0..15 |-> FALSE],
    drawFlag |-> FALSE,
    panicked |-> FALSE ]

\* The machine variables of the next state are the fields of m.
Becomes(m) ==
  /\ memory' = m.memory
  /\ V' = m.V
  /\ I' = m.I
  /\ PC' = m.PC
  /\ stack' = m.stack
  /\ SP' = m.SP
  /\ delayTimer' = m.delayTimer
  /\ soundTimer' = m.soundTimer
  /\ display' = m.display
  /\ keys' = m.keys
  /\ drawFlag' = m.drawFlag
  /\ panicked' = m.panicked

\* ------------------------------------------------------------ LoadROM
\* LoadROM with the size test off by one: a rom of exactly the largest size
\* is refused.
LoadROMResult_RefusesFull(m, rom) ==
  IF Len(rom) >= MemorySize - ProgramStart
  THEN [machine |-> m, err |-> TRUE]
  ELSE LET end == ProgramStart + Len(rom)
            kept == {a \in DOMAIN m.memory : a < ProgramStart \/ a >= end}
            copied == {a \in ProgramStart..(end - 1) : rom[a - ProgramStart + 1] # 0}
       IN [machine |->
             [m EXCEPT !.memory =
                [a \in kept \cup copied |->
                   IF a \in copied THEN rom[a - ProgramStart + 1]
                   ELSE m.memory[a]]],
           err |-> FALSE]

\* A rom longer than MemorySize - 0x200 is refused; otherwise it is copied
\* to memory[0x200..].  The result is the machine and the error, if any.
LoadROMResult(m, rom) ==
  IF Len(rom) > MemorySize - ProgramStart
  THEN [machine |-> m, err |-> TRUE]
  ELSE LET end == ProgramStart + Len(rom)
            kept == {a \in DOMAIN m.memory : a < ProgramStart \/ a >= end}
            copied == {a \in ProgramStart..(end - 1) : rom[a - ProgramStart + 1] # 0}
       IN [machine |->
             [m EXCEPT !.memory =
                [a \in kept \cup copied |->
                   IF a \in copied THEN rom[a - ProgramStart + 1]
                   ELSE m.memory[a]]],
           err |-> FALSE]

\* ------------------------------------------------------------ executeOpcode
Panic(m) == [m EXCEPT !.panicked = TRUE]

\* c.PC += k, in uint16
Advance(m, k) == [m EXCEPT !.PC = U16(m.PC + k)]

\* 00E0 - CLS
opCLS(m) ==
  Advance([m EXCEPT !.display = Zeroed, !.drawFlag = TRUE], 2)

\* 00EE that returns to the call itself instead of the instruction after it
opRET_ToCall(m) ==
  LET m1 == [m EXCEPT !.SP = U8(m.SP + 255)]
  IN IF m1.SP >= StackSize
     THEN Panic(m1)
     ELSE [m1 EXCEPT !.PC = m1.stack[m1.SP]]

\* 00EE - RET: c.SP-- ; c.PC = c.stack[c.SP] ; c.PC += 2
opRET(m) ==
  LET m1 == [m EXCEPT !.SP = U8(m.SP + 255)]
  IN IF m1.SP >= StackSize
     THEN Panic(m1)
     ELSE Advance([m1 EXCEPT !.PC = m1.stack[m1.SP]], 2)

\* 1nnn - JP addr
opJP(m, nnn) == [m EXCEPT !.PC = nnn]

\* 2nnn - CALL addr: c.stack[c.SP] = c.PC ; c.SP++ ; c.PC = nnn
opCALL(m, nnn) ==
  IF m.SP >= StackSize
  THEN Panic(m)
  ELSE [m EXCEPT !.stack[m.SP] = m.PC, !.SP = U8(m.SP + 1), !.PC = nnn]

\* 3xkk, 4xkk, 5xy0, 9xy0: skip the next instruction when cond holds
opSkipIf(m, cond) == IF cond THEN Advance(m, 4) ELSE Advance(m, 2)

\* 6xkk - LD Vx, byte
opLDImm(m, x, kk) == Advance([m EXCEPT !.V[x] = kk], 2)

\* 7xkk - ADD Vx, byte (uint8, wraps)
opADDImm(m, x, kk) == Advance([m EXCEPT !.V[x] = U8(m.V[x] + kk)], 2)

\* 8xy4 with the sum taken in uint8, so that no carry is ever seen
opADD_NarrowSum(m, x, y) ==
  LET sum == U8(m.V[x] + m.V[y])
      m1 == [m EXCEPT !.V[15] = 0]
      m2 == IF sum > 255 THEN [m1 EXCEPT !.V[15] = 1] ELSE m1
  IN Advance([m2 EXCEPT !.V[x] = U8(sum)], 2)

\* 8xy4 - ADD Vx, Vy: the sum in uint16, VF written before Vx
opADD(m, x, y) ==
  LET sum == m.V[x] + m.V[y]
      m1 == [m EXCEPT !.V[15] = 0]
      m2 == IF sum > 255 THEN [m1 EXCEPT !.V[15] = 1] ELSE m1
  IN Advance([m2 EXCEPT !.V[x] = U8(sum)], 2)

\* 8xy5 - SUB Vx, Vy: VF is written, then Vx and Vy are read again
opSUB(m, x, y) ==
  LET m1 == [m EXCEPT !.V[15] = 0]
      m2 == IF m1.V[x] > m1.V[y] THEN [m1 EXCEPT !.V[15] = 1] ELSE m1
  IN Advance([m2 EXCEPT !.V[x] = U8(m2.V[x] + 256 - m2.V[y])], 2)

\* 8xy6 - SHR Vx
opSHR(m, x) ==
  LET m1 == [m EXCEPT !.V[15] = m.V[x] % 2]
  IN Advance([m1 EXCEPT !.V[x] = m1.V[x] \div 2], 2)

\* 8xy7 - SUBN Vx, Vy
opSUBN(m, x, y) ==
  LET m1 == [m EXCEPT !.V[15] = 0]
      m2 == IF m1.V[y] > m1.V[x] THEN [m1 EXCEPT !.V[15] = 1] ELSE m1
  IN Advance([m2 EXCEPT !.V[x] = U8(m2.V[y] + 256 - m2.V[x])], 2)

\* 8xyE - SHL Vx
opSHL(m, x) ==
  LET m1 == [m EXCEPT !.V[15] = m.V[x] \div 128]
  IN Advance([m1 EXCEPT !.V[x] = U8(m1.V[x] * 2)], 2)

\* 8xyN
opALU(m, x, y, n) ==
  CASE n = 0 -> Advance([m EXCEPT !.V[x] = m.V[y]], 2)
    [] n = 1 -> Advance([m EXCEPT !.V[x] = BitOr(m.V[x], m.V[y])], 2)
    [] n = 2 -> Advance([m EXCEPT !.V[x] = BitAnd(m.V[x], m.V[y])], 2)
    [] n = 3 -> Advance([m EXCEPT !.V[x] = BitXor(m.V[x], m.V[y])], 2)
    [] n = 4 -> opADD(m, x, y)
    [] n = 5 -> opSUB(m, x, y)
    [] n = 6 -> opSHR(m, x)
    [] n = 7 -> opSUBN(m, x, y)
    [] n = 14 -> opSHL(m, x)
    [] OTHER -> Advance(m, 2)

\* Annn - LD I, addr
opLDI(m, nnn) == Advance([m EXCEPT !.I = nnn], 2)

\* Bnnn - JP V0, addr
opJPV0(m, nnn) == [m EXCEPT !.PC = U16(nnn + m.V[0])]

\* Cxkk - RND Vx, byte; rnd is the byte rand.Intn(256) returns
opRND(m, x, kk, rnd) == Advance([m EXCEPT !.V[x] = BitAnd(rnd, kk)], 2)

\* Ex9E (skipIfPressed) and ExA1: c.keys[c.V[x]] with V[x] a uint8
opKeySkip(m, x, skipIfPressed) ==
  IF m.V[x] >= 16
  THEN Panic(m)
  ELSE opSkipIf(m, m.keys[m.V[x]] = skipIfPressed)

\* Fx0A with a descending scan: the last pressed key instead of the first
opLDK_Highest(m, x) ==
  LET pressed == {i \in 0..15 : m.keys[i]}
  IN IF pressed = {}
     THEN m
     ELSE Advance([m EXCEPT !.V[x] = CHOOSE i \in pressed : \A j \in pressed : i >= j], 2)

\* Fx0A that stores the key but never moves on
opLDK_NoAdvance(m, x) ==
  LET pressed == {i \in 0..15 : m.keys[i]}
  IN IF pressed = {}
     THEN m
     ELSE [m EXCEPT !.V[x] = CHOOSE i \in pressed : \A j \in pressed : i <= j]

\* Fx0A - LD Vx, K: the first pressed key in ascending order, or wait
opLDK(m, x) ==
  LET pressed == {i \in 0..15 : m.keys[i]}
  IN IF pressed = {}
     THEN m
     ELSE Advance([m EXCEPT !.V[x] = CHOOSE i \in pressed : \A j \in pressed : i <= j], 2)

\* Fx33 - LD B, Vx: three stores, each one bounds-checked when it is made
opBCD(m, x) ==
  LET a0 == m.I
      a1 == U16(m.I + 1)
      a2 == U16(m.I + 2)
      m1 == [m EXCEPT !.memory = Put(@, a0, m.V[x] \div 100)]
      m2 == [m1 EXCEPT !.memory = Put(@, a1, (m.V[x] \div 10) % 10)]
      m3 == [m2 EXCEPT !.memory = Put(@, a2, m.V[x] % 10)]
  IN IF a0 >= MemorySize THEN Panic(m)
     ELSE IF a1 >= MemorySize THEN Panic(m1)
     ELSE IF a2 >= MemorySize THEN Panic(m2)
     ELSE Advance(m3, 2)

\* Fx55 - LD [I], Vx: for i := 0; i <= x; i++ { memory[I+i] = V[i] }
RECURSIVE StoreRegs(_, _, _)
StoreRegs(m, x, i) ==
  IF i > x THEN Advance(m, 2)
  ELSE LET a == U16(m.I + i)
       IN IF a >= MemorySize THEN Panic(m)
          ELSE StoreRegs([m EXCEPT !.memory = Put(@, a, m.V[i])], x, i + 1)

\* Fx65 that stops one register short: V0 .. V(x-1)
RECURSIVE LoadRegs_Exclusive(_, _, _)
LoadRegs_Exclusive(m, x, i) ==
  IF i >= x THEN Advance(m, 2)
  ELSE LET a == U16(m.I + i)
       IN IF a >= MemorySize THEN Panic(m)
          ELSE LoadRegs_Exclusive([m EXCEPT !.V[i] = Get(m.memory, a)], x, i + 1)

\* Fx65 - LD Vx, [I]: for i := 0; i <= x; i++ { V[i] = memory[I+i] }
RECURSIVE LoadRegs(_, _, _)
LoadRegs(m, x, i) ==
  IF i > x THEN Advance(m, 2)
  ELSE LET a == U16(m.I + i)
       IN IF a >= MemorySize THEN Panic(m)
          ELSE LoadRegs([m EXCEPT !.V[i] = Get(m.memory, a)], x, i + 1)

\* ------------------------------------------------------------ drawSprite
\* pixelIndex := screenY*ScreenWidth + screenX, where screenX and screenY are
\* uint8 and ScreenWidth is an untyped constant: the arithmetic is uint8.
pixelIndex(screenX, screenY) == U8(U8(screenY * ScreenWidth) + screenX)

\* The inner loop with the collision test made after the pixel is inverted.
RECURSIVE DrawCols_LateCheck(_, _, _, _, _, _)
DrawCols_LateCheck(m, spriteData, xPos, yPos, row, col) ==
  IF col >= 8 THEN m
  ELSE IF Bit(spriteData, 7 - col) = 0
  THEN DrawCols_LateCheck(m, spriteData, xPos, yPos, row, col + 1)
  ELSE LET screenX == U8(xPos + col) % ScreenWidth
           screenY == U8(yPos + row) % ScreenHeight
           p == U8(U8(screenY * ScreenWidth) + screenX)
           m1 == [m EXCEPT !.display = Put(@, p, BitXor(Get(@, p), 1))]
           m2 == IF Get(m1.display, p) = 1 THEN [m1 EXCEPT !.V[15] = 1] ELSE m1
       IN DrawCols_LateCheck(m2, spriteData, xPos, yPos, row, col + 1)

\* The inner loop with the pixel incremented instead of inverted.
RECURSIVE DrawCols_Add(_, _, _, _, _, _)
DrawCols_Add(m, spriteData, xPos, yPos, row, col) ==
  IF col >= 8 THEN m
  ELSE IF Bit(spriteData, 7 - col) = 0
  THEN DrawCols_Add(m, spriteData, xPos, yPos, row, col + 1)
  ELSE LET screenX == U8(xPos + col) % ScreenWidth
           screenY == U8(yPos + row) % ScreenHeight
           p == U8(U8(screenY * ScreenWidth) + screenX)
           m1 == IF Get(m.display, p) = 1 THEN [m EXCEPT !.V[15] = 1] ELSE m
           m2 == [m1 EXCEPT !.display = Put(@, p, U8(Get(@, p) + 1))]
       IN DrawCols_Add(m2, spriteData, xPos, yPos, row, col + 1)

\* The inner loop: columns col..7 of one sprite row.
RECURSIVE DrawCols(_, _, _, _, _, _)
DrawCols(m, spriteData, xPos, yPos, row, col) ==
  IF col >= 8 THEN m
  ELSE IF Bit(spriteData, 7 - col) = 0
  THEN DrawCols(m, spriteData, xPos, yPos, row, col + 1)
  ELSE LET screenX == U8(xPos + col) % ScreenWidth
           screenY == U8(yPos + row) % ScreenHeight
           p == pixelIndex(screenX, screenY)
           m1 == IF Get(m.display, p) = 1 THEN [m EXCEPT !.V[15] = 1] ELSE m
           m2 == [m1 EXCEPT !.display = Put(@, p, BitXor(Get(@, p), 1))]
       IN DrawCols(m2, spriteData, xPos, yPos, row, col + 1)

\* The outer loop: rows row..height-1, then c.drawFlag = true.
RECURSIVE DrawRows(_, _, _, _, _)
DrawRows(m, xPos, yPos, height, row) ==
  IF row >= height THEN [m EXCEPT !.drawFlag = TRUE]
  ELSE LET a == U16(m.I + row)
       IN IF a >= MemorySize THEN Panic(m)
          ELSE DrawRows(DrawCols(m, Get(m.memory, a), xPos, yPos, row, 0),
                        xPos, yPos, height, row + 1)

\* A draw that leaves the redraw latch as it found it
drawSprite_NoLatch(m, x, y, height) ==
  LET m0 == [m EXCEPT !.V[15] = 0]
      xPos == m0.V[x] % ScreenWidth
      yPos == m0.V[y] % ScreenHeight
      m1 == DrawRows(m0, xPos, yPos, height, 0)
  IN [m1 EXCEPT !.drawFlag = m.drawFlag]

\* VF is reset, then the origin is read from V[x] and V[y].
drawSprite(m, x, y, height) ==
  LET m0 == [m EXCEPT !.V[15] = 0]
      xPos == m0.V[x] % ScreenWidth
      yPos == m0.V[y] % ScreenHeight
  IN DrawRows(m0, xPos, yPos, height, 0)

\* Dxyn - DRW Vx, Vy, n
opDRW(m, x, y, n) ==
  LET m1 == drawSprite(m, x, y, n)
  IN IF m1.panicked THEN m1 ELSE Advance(m1, 2)

\* ------------------------------------------------------------ dispatch
\* 0nnn
opSys(m, opcode) ==
  CASE opcode = 224 -> opCLS(m)
    [] opcode = 238 -> opRET(m)
    [] OTHER -> Advance(m, 2)

\* Exkk with an unknown low byte treated as a skip
opKey_UnknownSkips(m, x, kk) ==
  CASE kk = 158 -> opKeySkip(m, x, TRUE)
    [] kk = 161 -> opKeySkip(m, x, FALSE)
    [] OTHER -> Advance(m, 4)

\* Exkk
opKey(m, x, kk) ==
  CASE kk = 158 -> opKeySkip(m, x, TRUE)
    [] kk = 161 -> opKeySkip(m, x, FALSE)
    [] OTHER -> Advance(m, 2)

\* Fxkk
opMisc(m, x, kk) ==
  CASE kk = 7 -> Advance([m EXCEPT !.V[x] = m.delayTimer], 2)
    [] kk = 10 -> opLDK(m, x)
    [] kk = 21 -> Advance([m EXCEPT !.delayTimer = m.V[x]], 2)
    [] kk = 24 -> Advance([m EXCEPT !.soundTimer = m.V[x]], 2)
    [] kk = 30 -> Advance([m EXCEPT !.I = U16(m.I + m.V[x])], 2)
    [] kk = 41 -> Advance([m EXCEPT !.I = m.V[x] * 5], 2)
    [] kk = 51 -> opBCD(m, x)
    [] kk = 85 -> StoreRegs(m, x, 0)
    [] kk = 101 -> LoadRegs(m, x, 0)
    [] OTHER -> Advance(m, 2)

executeOpcode(m, opcode, rnd) ==
  LET nnn == opcode % 4096
      n == opcode % 16
      x == (opcode \div 256) % 16
      y == (opcode \div 16) % 16
      kk == opcode % 256
      family == opcode \div 4096
  IN CASE family = 0 -> opSys(m, opcode)
       [] family = 1 -> opJP(m, nnn)
       [] family = 2 -> opCALL(m, nnn)
       [] family = 3 -> opSkipIf(m, m.V[x] = kk)
       [] family = 4 -> opSkipIf(m, m.V[x] # kk)
       [] family = 5 -> opSkipIf(m, m.V[x] = m.V[y])
       [] family = 6 -> opLDImm(m, x, kk)
       [] family = 7 -> opADDImm(m, x, kk)
       [] family = 8 -> opALU(m, x, y, n)
       [] family = 9 -> opSkipIf(m, m.V[x] # m.V[y])
       [] family = 10 -> opLDI(m, nnn)
       [] family = 11 -> opJPV0(m, nnn)
       [] family = 12 -> opRND(m, x, kk, rnd)
       [] family = 13 -> opDRW(m, x, y, n)
       [] family = 14 -> opKey(m, x, kk)
       [] OTHER -> opMisc(m, x, kk)

\* ------------------------------------------------------------ EmulateCycle
\* The fetch reads memory[PC] and memory[PC+1]; either index may be outside.
FetchPanics(m) == m.PC >= MemorySize \/ U16(m.PC + 1) >= MemorySize

Fetch(m) == Get(m.memory, m.PC) * 256 + Get(m.memory, U16(m.PC + 1))

\* The timer update without the > 0 tests: uint8 decrements that wrap
TickTimers_Wrap(m) ==
  [m EXCEPT !.delayTimer = U8(@ + 255), !.soundTimer = U8(@ + 255)]

TickTimers(m) ==
  [m EXCEPT !.delayTimer = IF @ > 0 THEN @ - 1 ELSE @,
            !.soundTimer = IF @ > 0 THEN @ - 1 ELSE @]

\* A cycle whose timer update runs before the instruction
EmulateCycleResult_TickFirst(m, rnd) ==
  IF FetchPanics(m) THEN Panic(m)
  ELSE executeOpcode(TickTimers(m), Fetch(m), rnd)

EmulateCycleResult(m, rnd) ==
  IF FetchPanics(m) THEN Panic(m)
  ELSE LET m1 == executeOpcode(m, Fetch(m), rnd)
       IN IF m1.panicked THEN m1 ELSE TickTimers(m1)

\* ------------------------------------------------------------ host inputs
\* The largest rom LoadROM accepts.
MaxRomSize == MemorySize - ProgramStart

\* 00EE with an empty stack.
RomRet == << 0, 238 >>

\* 6A9D (VA = 157), FA33 (BCD of VA at I = 0), 6107 (V1 = 7),
\* F155 (V0, V1 at I), 1208 (jump to itself).
RomBcd == << 106, 157, 250, 51, 97, 7, 241, 85, 18, 8 >>

\* D010 (a draw of no rows), A20A (I = 0x20A), D011 (draw 1 row at (V0, V1)),
\* 00E0 (clear), 1208 (jump to itself); sprite row 0xC0 at 0x20A.
RomDraw == << 208, 16, 162, 10, 208, 17, 0, 224, 18, 8, 192 >>

\* A rom of exactly the largest size: 1FFE (jump to the last instruction
\* of memory), zeros with a mark every 500 bytes, and 6B2A (VB = 42) as
\* the last instruction of memory.
RomFull ==
  [i \in 1..MaxRomSize |->
     CASE i = 1 -> 31
       [] i = 2 -> 254
       [] i = MaxRomSize - 1 -> 107
       [] i = MaxRomSize -> 42
       [] i % 500 = 0 -> i \div 500
       [] OTHER -> 0]

\* One byte too many.
RomOver ==
  [i \in 1..(MaxRomSize + 1) |-> IF i % 500 = 1 THEN 1 + (i \div 500) ELSE 0]

Roms == { << >>, RomRet, RomBcd, RomDraw, RomFull, RomOver }

\* C0FF (V0 = random), C1FF (V1 = random), A20C (I = 0x20C),
\* D011 twice (the same one-row sprite at the same origin),
\* 120A (jump to itself); the sprite row 0x10, a single bit, at 0x20C.
RomTwice == << 192, 255, 193, 255, 162, 12, 208, 17, 208, 17, 18, 10, 16 >>

\* F30A (wait for a key, into V3), E39E (skip if key V3 is pressed),
\* 1200 (back to the wait), 1206 (jump to itself).
RomKeys == << 243, 10, 227, 158, 18, 0, 18, 6 >>

\* A20A (I = 0x20A), D011 (draw at (0, 0)), 6104 (V1 = 4),
\* D011 (draw at (0, 4)), 1208 (jump to itself); sprite row 0x80 at 0x20A.
RomRows == << 162, 10, 208, 17, 97, 4, 208, 17, 18, 8, 128 >>

\* C007 (V0 = random AND 7), F015 (delay timer = V0), 0123 (no such
\* instruction), F10A (wait for a key, into V1), F207 (V2 = delay timer),
\* F018 (sound timer = V0), 120C (jump to itself).
RomTimers == << 192, 7, 240, 21, 1, 35, 241, 10, 242, 7, 240, 24, 18, 12 >>

\* Four encodings no case handles: 0123, 8018, E000, F0FF; then 1208
\* (jump to itself).
RomUnknown == << 1, 35, 128, 24, 224, 0, 240, 255, 18, 8 >>

\* 0x200: 2206 (call 0x206), 0x202: 1202 (jump to itself), 0x206: 220C
\* (call 0x20C), 0x208: 00EE (return), 0x20C: 00EE (return).
RomCall == << 34, 6, 18, 2, 0, 0, 34, 12, 0, 238, 0, 0, 0, 238 >>

\* 6005 (V0 = 5), 610A (V1 = 10), 8015 (V0 -= V1), 6F0A (VF = 10),
\* 80F5 (V0 -= VF), 120A (jump to itself).
RomSub == << 96, 5, 97, 10, 128, 21, 111, 10, 128, 245, 18, 10 >>

\* 60FA (V0 = 250), 610A (V1 = 10), 8014 (V0 += V1), C2FF (V2 = random),
\* 8F24 (VF += V2), 82F4 (V2 += VF), 120C (jump to itself).
RomAdd == << 96, 250, 97, 10, 128, 20, 194, 255, 143, 36, 130, 244, 18, 12 >>

\* C0FF (V0 = random), A300 (I = 0x300), F155 (store V0, V1 at I),
\* 7001 (V0 += 1), 7109 (V1 += 9), F165 (load V0, V1 from I),
\* 120C (jump to itself).
RomRegs == << 192, 255, 163, 0, 241, 85, 112, 1, 113, 9, 241, 101, 18, 12 >>

Programs ==
  { RomTwice, RomKeys, RomRows, RomTimers, RomUnknown, RomCall, RomSub,
    RomAdd, RomRegs }

\* The key indices the host passes to SetKey: the ends of the keypad and
\* one index outside it.
KeyArgs == { 0, 15, 16 }

\* The bytes rand.Intn(256) is taken to return.
RandBytes == { 0, 37, 60, 255 }

\* ------------------------------------------------------------ actions
Init ==
  /\ memory = New.memory /\ V = New.V /\ I = New.I /\ PC = New.PC
  /\ stack = New.stack /\ SP = New.SP
  /\ delayTimer = New.delayTimer /\ soundTimer = New.soundTimer
  /\ display = New.display /\ keys = New.keys
  /\ drawFlag = New.drawFlag /\ panicked = New.panicked
  /\ last = [op |-> "New"]
  /\ steps = 0
  /\ loads = 0

LoadROM(rom) ==
  /\ ~panicked
  /\ \E r \in {LoadROMResult(Machine, rom)} :
       /\ Becomes(r.machine)
       /\ last' = [op |-> "LoadROM", rom |-> rom, err |-> r.err]
  /\ loads' = loads + 1
  /\ UNCHANGED steps

EmulateCycle ==
  /\ ~panicked
  /\ \E rnd \in (IF ~FetchPanics(Machine) /\ Fetch(Machine) \div 4096 = 12
                 THEN RandBytes ELSE {0}) :
       \E m \in {EmulateCycleResult(Machine, rnd)} : Becomes(m)
  /\ last' = [op |-> "EmulateCycle"]
  /\ steps' = steps + 1
  /\ UNCHANGED loads

\* SetKey without the range test, the index taken modulo 16
SetKey_Wraps(key, pressed) ==
  /\ ~panicked
  /\ keys' = [keys EXCEPT ![key % 16] = pressed]
  /\ last' = [op |-> "SetKey", key |-> key, pressed |-> pressed]
  /\ UNCHANGED << memory, V, I, PC, stack, SP, delayTimer, soundTimer,
                  display, drawFlag, panicked, steps, loads >>

SetKey(key, pressed) ==
  /\ ~panicked
  /\ keys' = IF key < 16 THEN [keys EXCEPT ![key] = pressed] ELSE keys
  /\ last' = [op |-> "SetKey", key |-> key, pressed |-> pressed]
  /\ UNCHANGED << memory, V, I, PC, stack, SP, delayTimer, soundTimer,
                  display, drawFlag, panicked, steps, loads >>

GetDisplay ==
  /\ ~panicked
  /\ last' = [op |-> "GetDisplay", ret |-> display]
  /\ UNCHANGED << machineVars, steps, loads >>

DrawFlag ==
  /\ ~panicked
  /\ last' = [op |-> "DrawFlag", ret |-> drawFlag]
  /\ drawFlag' = FALSE
  /\ UNCHANGED << memory, V, I, PC, stack, SP, delayTimer, soundTimer,
                  display, keys, panicked, steps, loads >>

\* The host of Spec: any call at any time, after a panic none.
Next ==
  \/ loads < MaxLoads /\ \E rom \in Roms : LoadROM(rom)
  \/ steps < MaxSteps /\ EmulateCycle
  \/ \E key \in KeyArgs, pressed \in BOOLEAN : SetKey(key, pressed)
  \/ GetDisplay
  \/ DrawFlag

Spec == Init /\ [][Next]_vars

\* The host of RunSpec: New(), LoadROM of one program, then any sequence of
\* EmulateCycle, SetKey, GetDisplay and DrawFlag.
RunInit ==
  \E rom \in Programs :
    LET r == LoadROMResult(New, rom)
    IN /\ memory = r.machine.memory /\ V = r.machine.V /\ I = r.machine.I
       /\ PC = r.machine.PC /\ stack = r.machine.stack /\ SP = r.machine.SP
       /\ delayTimer = r.machine.delayTimer
       /\ soundTimer = r.machine.soundTimer
       /\ display = r.machine.display /\ keys = r.machine.keys
       /\ drawFlag = r.machine.drawFlag /\ panicked = r.machine.panicked
       /\ last = [op |-> "LoadROM", rom |-> rom, err |-> r.err]
       /\ steps = 0
       /\ loads = 1

RunNext ==
  \/ steps < MaxRunSteps /\ EmulateCycle
  \/ \E key \in KeyArgs, pressed \in BOOLEAN : SetKey(key, pressed)
  \/ GetDisplay
  \/ DrawFlag

RunSpec == RunInit /\ [][RunNext]_vars

\* RunSpec with a host that keeps calling EmulateCycle for as long as it may:
\* a main loop that steps the machine once per iteration.
LiveSpec ==
  RunInit /\ [][RunNext]_vars /\ WF_vars(steps < MaxRunSteps /\ EmulateCycle)

\* ------------------------------------------------------------ claims
\* The call that made the step from the current state to the next one (every
\* action records its own name in last).
Called(op) == last'.op = op

\* The indices at which an array holds a nonzero value; at every other index
\* it holds 0, so two arrays that agree on the indices either one holds agree
\* everywhere.
Held(arr) == DOMAIN arr

\* C1: EmulateCycle never fails: no reachable state is one in which a call
\* ended in a run-time panic (an index outside memory, stack or keys).
C1_StepNeverFails == ~panicked

\* C2: LoadROM of a rom of at most 3584 bytes returns no error, makes
\* memory[0x200 + i] = rom[i] for every i < len(rom) and changes nothing
\* else; LoadROM of a longer rom returns an error and changes nothing.
C2_LoadROMContract ==
  [][Called("LoadROM") =>
       \A rom \in {last'.rom} : \A len \in {Len(rom)} :
          IF len <= 3584
          THEN /\ last'.err = FALSE
               /\ \A a \in Held(memory) \cup Held(memory') \cup (512..(511 + len)) :
                    Get(memory', a) =
                      IF a >= 512 /\ a - 512 < len
                      THEN rom[a - 512 + 1]
                      ELSE Get(memory, a)
               /\ UNCHANGED << V, I, PC, stack, SP, delayTimer, soundTimer,
                               display, keys, drawFlag, panicked >>
          ELSE /\ last'.err = TRUE
               /\ UNCHANGED machineVars]_vars

\* C2 witness: a rom of exactly 3584 bytes was loaded without error after the
\* machine had run (PC moved, a key pressed), and its last byte is in place.
C2_Witness ==
  /\ last.op = "LoadROM" /\ Len(last.rom) = 3584 /\ last.err = FALSE
  /\ Get(memory, 4095) = 42
  /\ PC # 512 /\ keys[15]

\* C3: the program counter is an offset inside memory in every reachable
\* state.
C3_PCInsideMemory == PC <= 4095

\* C4: no operation changes memory below 0x200 after construction.
C4_LowMemoryFixed ==
  \A a \in 0..511 : Get(memory, a) = Get(New.memory, a)

\* ------------------------------------------------------------ draw claims
\* The instruction word at PC, as the next step will fetch it.
Instr == Get(memory, PC) * 256 + Get(memory, PC + 1)

\* The step from the current state is an EmulateCycle that completes.
StepDone == Called("EmulateCycle") /\ ~panicked'

\* The step from the current state is a completed Dxyn.
DrawDone == StepDone /\ Instr \div 4096 = 13

\* The framebuffer entries a Dxyn at the current state is to invert: with
\* X = Vx mod 64 and Y = Vy mod 32, for every row r < n and column c < 8 such
\* that bit 7 - c of memory[I + r] is 1, the row-major index
\* ((Y + r) mod 32) * 64 + ((X + c) mod 64).
DrawTargets ==
  LET x == (Instr \div 256) % 16
      y == (Instr \div 16) % 16
      n == Instr % 16
      X == V[x] % 64
      Y == V[y] % 32
  IN { ((Y + rc[1]) % 32) * 64 + ((X + rc[2]) % 64) :
         rc \in { q \in (0..(n - 1)) \X (0..7) :
                    Bit(Get(memory, I + q[1]), 7 - q[2]) = 1 } }

\* C5: a Dxyn step inverts exactly the framebuffer entries of DrawTargets and
\* leaves every other entry unchanged.
C5_SpritePlacement ==
  [][DrawDone =>
       \A targets \in {DrawTargets} :
         \A p \in 0..2047 :
           Get(display', p) =
             IF p \in targets THEN 1 - Get(display, p) ELSE Get(display, p)]_vars

\* C6: at the end of a Dxyn step VF is 1 if a sprite bit of value 1 targeted
\* a framebuffer entry that was 1, and 0 otherwise, whatever VF was before.
C6_CollisionFlag ==
  [][DrawDone =>
       V'[15] = IF \E p \in DrawTargets : Get(display, p) = 1 THEN 1 ELSE 0]_vars

\* RomTwice is the program in memory (it never stores to memory).
TwiceLoaded == memory = LoadROMResult(New, RomTwice).machine.memory

\* C7 as stated: in RomTwice, once both draws are done (PC is at the jump
\* after them), the pixel is off again and VF = 0 (no collision reported).
C7_SecondDrawNoCollision ==
  TwiceLoaded /\ PC = 522 => display = Zeroed /\ V[15] = 0

\* The step from the current state draws one sprite row that has a single
\* bit set.
OneBitDraw ==
  /\ DrawDone
  /\ Instr % 16 = 1
  /\ Get(memory, I) \in {1, 2, 4, 8, 16, 32, 64, 128}

\* C7 as amended: in RomTwice the first draw, onto a clear framebuffer, sets
\* one pixel and leaves VF = 0; the second draw, at the same origin, toggles
\* that pixel off again and leaves VF = 1.  And every draw of a single-bit,
\* single-row sprite toggles exactly one pixel and leaves VF = 1 if and only
\* if that pixel was set before the draw.
C7_DrawTwice ==
  /\ [](TwiceLoaded /\ PC = 520 =>
          /\ Cardinality(Held(display)) = 1
          /\ \A p \in Held(display) : display[p] = 1
          /\ V[15] = 0)
  /\ [](TwiceLoaded /\ PC = 522 => display = Zeroed /\ V[15] = 1)
  /\ [][OneBitDraw =>
          \E p \in 0..2047 :
            /\ Get(display', p) = 1 - Get(display, p)
            /\ \A q \in (Held(display) \cup Held(display')) \ {p} :
                 Get(display', q) = Get(display, q)
            /\ V'[15] = Get(display, p)]_vars

\* C7 witness: both draws of RomTwice are done, at an origin in the lower
\* part of the screen; the framebuffer is clear again and VF = 1.
C7_Witness ==
  /\ TwiceLoaded /\ PC = 522 /\ last.op = "EmulateCycle"
  /\ V[0] = 60 /\ V[1] = 37
  /\ display = Zeroed /\ V[15] = 1


\* ------------------------------------------------------------ key wait
\* The instruction at PC is Fx0A.
AtWait == Instr \div 4096 = 15 /\ Instr % 256 = 10

AnyKey == \E i \in 0..15 : keys[i]

\* C8: a step on an Fx0A instruction while no key is pressed leaves PC
\* unchanged and the instruction in place, so the next step executes it
\* again; a step on it while some key is pressed stores the lowest pressed
\* key index in Vx and advances PC by exactly 2.
C8_KeyWaitBlocks ==
  [][StepDone /\ AtWait =>
       \A x \in {(Instr \div 256) % 16} :
          IF AnyKey
          THEN /\ keys[V'[x]]
               /\ \A j \in 0..15 : keys[j] => V'[x] <= j
               /\ PC' = PC + 2
          ELSE /\ PC' = PC
               /\ memory' = memory
               /\ V' = V]_vars

C8_Witness ==
  /\ last.op = "EmulateCycle"
  /\ Get(memory, 512) = 243 /\ Get(memory, 513) = 10
  /\ steps = 2
  /\ PC = 514
  /\ keys[0] /\ keys[15]
  /\ V[3] = 0

\* C9: under fair stepping, a machine waiting at the Fx0A at 0x200 with a
\* key pressed leaves it (PC = 0x202) unless every key is released first;
\* and no transition taken from a wait with no key pressed moves PC.
C9_KeyWaitEnds ==
  /\ (PC = 512 /\ AtWait /\ AnyKey /\ ~panicked /\ steps < MaxRunSteps)
        ~> (PC = 514 \/ ~AnyKey)
  /\ [][AtWait /\ ~AnyKey => PC' = PC]_vars

C9_Witness ==
  /\ last.op = "EmulateCycle"
  /\ Get(memory, 512) = 243 /\ Get(memory, 513) = 10
  /\ steps = 3
  /\ PC = 514
  /\ V[3] = 15
  /\ keys[15] /\ ~keys[0]

\* ------------------------------------------------------------ redraw latch
\* C10: the latch is false after New(); a completed 00E0 or Dxyn step sets
\* it; DrawFlag returns it and leaves it false; nothing else changes it. So
\* DrawFlag returns true exactly when a 00E0 or Dxyn ran since the previous
\* DrawFlag call, or since New().
C10_RedrawLatch ==
  /\ [](last.op = "New" => drawFlag = FALSE)
  /\ [][IF Called("DrawFlag")
         THEN last'.ret = drawFlag /\ drawFlag' = FALSE
         ELSE IF StepDone /\ (Instr = 224 \/ Instr \div 4096 = 13)
         THEN drawFlag' = TRUE
         ELSE drawFlag' = drawFlag]_vars

C10_Witness ==
  /\ last.op = "DrawFlag"
  /\ last.ret = TRUE
  /\ drawFlag = FALSE
  /\ display = Zeroed
  /\ PC = 514
  /\ ~panicked

\* ------------------------------------------------------------ timers
TimersLoaded == memory = LoadROMResult(New, RomTimers).machine.memory

\* The instruction at PC is Fxkk with the given low byte.
IsMisc(kk) == Instr \div 4096 = 15 /\ Instr % 256 = kk

\* C11: a completed step that does not execute Fx15 leaves delayTimer one
\* lower if it was nonzero and at 0 if it was 0; likewise soundTimer and
\* Fx18; neither timer ever leaves 0..255.  In RomTimers with V0 = 4 the
\* delay timer is 2 after the unknown opcode and then 1, 0, 0 after three
\* blocked key-wait steps.
C11_TimerFloor ==
  /\ [](delayTimer \in 0..255 /\ soundTimer \in 0..255)
  /\ [][StepDone =>
          /\ ~IsMisc(21) =>
                delayTimer' = IF delayTimer > 0 THEN delayTimer - 1 ELSE 0
          /\ ~IsMisc(24) =>
                soundTimer' = IF soundTimer > 0 THEN soundTimer - 1 ELSE 0]_vars
  /\ [](TimersLoaded /\ V[0] = 4 /\ PC = 518 /\ ~panicked =>
          delayTimer = CASE steps = 3 -> 2
                         [] steps = 4 -> 1
                         [] OTHER -> 0)

C11_Witness ==
  /\ TimersLoaded /\ last.op = "EmulateCycle"
  /\ V[0] = 4 /\ PC = 518 /\ steps = 6
  /\ delayTimer = 0 /\ soundTimer = 0

\* ------------------------------------------------------------ unknown opcodes
\* The instruction at PC is one no case of executeOpcode handles.
Unknown ==
  LET family == Instr \div 4096
      n == Instr % 16
      kk == Instr % 256
  IN \/ family = 0 /\ Instr \notin {224, 238}
     \/ family = 8 /\ n \notin (0..7) \cup {14}
     \/ family = 14 /\ kk \notin {158, 161}
     \/ family = 15 /\ kk \notin {7, 10, 21, 24, 30, 41, 51, 85, 101}

\* C12: a step that fetches an unknown encoding does not fail, advances PC
\* by exactly 2, and changes no register, I, stack, SP, memory, framebuffer,
\* key or draw latch; the two timers tick as on any step.
C12_UnknownNonFatal ==
  [][Called("EmulateCycle") /\ PC + 1 < MemorySize /\ Unknown =>
       /\ ~panicked'
       /\ PC' = PC + 2
       /\ UNCHANGED << V, I, stack, SP, memory, display, keys, drawFlag >>
       /\ delayTimer' = IF delayTimer > 0 THEN delayTimer - 1 ELSE 0
       /\ soundTimer' = IF soundTimer > 0 THEN soundTimer - 1 ELSE 0]_vars

UnknownLoaded == memory = LoadROMResult(New, RomUnknown).machine.memory

C12_Witness ==
  /\ UnknownLoaded /\ last.op = "EmulateCycle"
  /\ steps = 4 /\ PC = 520
  /\ ~panicked /\ SP = 0 /\ I = 0
  /\ \A i \in 0..15 : V[i] = 0

\* ------------------------------------------------------------ call and return
CallLoaded == memory = LoadROMResult(New, RomCall).machine.memory

\* C13: a completed 2nnn at PC = p with SP = s stores p in stack[s], makes
\* SP = s + 1 and PC = nnn; a completed 00EE with SP = s + 1 makes SP = s and
\* PC = stack[s] + 2; and no transition changes a stack entry that is below
\* SP before and after it.  So a return with SP = s + 1, the nested calls
\* having returned, lands on p + 2: in RomCall the inner return lands on
\* 0x208 and the outer one on 0x202.
C13_CallReturn ==
  /\ [][StepDone /\ Instr \div 4096 = 2 =>
          /\ stack' = [stack EXCEPT ![SP] = PC]
          /\ SP' = SP + 1
          /\ PC' = Instr % 4096]_vars
  /\ [][StepDone /\ Instr = 238 =>
          /\ SP >= 1
          /\ SP' = SP - 1
          /\ PC' = stack[SP - 1] + 2
          /\ stack' = stack]_vars
  /\ [][\A k \in 0..15 : k < SP /\ k < SP' => stack'[k] = stack[k]]_vars
  /\ [](CallLoaded /\ steps = 2 => PC = 524 /\ SP = 2)
  /\ [](CallLoaded /\ steps = 3 => PC = 520 /\ SP = 1)
  /\ [](CallLoaded /\ steps >= 4 => PC = 514 /\ SP = 0)

C13_Witness ==
  /\ CallLoaded /\ last.op = "EmulateCycle"
  /\ steps = 4 /\ PC = 514 /\ SP = 0
  /\ stack[0] = 512 /\ stack[1] = 518

\* C14: the stack pointer is at most 16 in every reachable state.
C14_SPBounded == SP <= StackSize

\* ------------------------------------------------------------ arithmetic
\* The register indices and the low nibble of the instruction at PC.
InstrX == (Instr \div 256) % 16

InstrY == (Instr \div 16) % 16

\* The step from the current state is a completed 8xyN with the given N.
AluDone(n) == StepDone /\ Instr \div 4096 = 8 /\ Instr % 16 = n

\* C15: a completed 8xy5 with x # 15 leaves Vx = (Vx - Vy) mod 256 and
\* VF = 1 if Vx > Vy, else 0, both from the values before the step, for
\* every y in 0..15, and advances PC by 2; 8xy7 likewise with Vy - Vx and
\* Vy > Vx.
C15_SubtractBorrow ==
  [][/\ AluDone(5) /\ InstrX # 15 =>
          /\ V'[InstrX] = (V[InstrX] - V[InstrY]) % 256
          /\ V'[15] = IF V[InstrX] > V[InstrY] THEN 1 ELSE 0
          /\ PC' = PC + 2
     /\ AluDone(7) /\ InstrX # 15 =>
          /\ V'[InstrX] = (V[InstrY] - V[InstrX]) % 256
          /\ V'[15] = IF V[InstrY] > V[InstrX] THEN 1 ELSE 0
          /\ PC' = PC + 2]_vars

AddLoaded == memory = LoadROMResult(New, RomAdd).machine.memory

\* C16: a completed 8xy4 advances PC by 2 and changes no register other
\* than Vx and VF; with x # 15 it leaves Vx = (Vx + Vy) mod 256 and VF = 1
\* if Vx + Vy > 255, else 0; with x = 15 it leaves VF = (VF + Vy) mod 256;
\* all from the values before the step, for every y in 0..15.
C16_AddCarry ==
  [][AluDone(4) =>
       \A sum \in {V[InstrX] + V[InstrY]} :
          /\ PC' = PC + 2
          /\ \A i \in 0..14 : i # InstrX => V'[i] = V[i]
          /\ IF InstrX # 15
             THEN /\ V'[InstrX] = sum % 256
                  /\ V'[15] = IF sum > 255 THEN 1 ELSE 0
             ELSE V'[15] = sum % 256]_vars

\* C16 witness: 250 + 10 has given V0 = 4 and VF = 1.
C16_Witness ==
  /\ AddLoaded /\ last.op = "EmulateCycle"
  /\ steps = 3 /\ PC = 518
  /\ V[0] = 4 /\ V[1] = 10 /\ V[15] = 1

\* ------------------------------------------------------------ register block
\* RomRegs is the program in memory (it stores outside its own bytes).
RegsLoaded == \A i \in 1..Len(RomRegs) : Get(memory, 511 + i) = RomRegs[i]

\* C17: a completed Fx55 makes memory[I + i] = Vi for every i <= x and
\* changes no other memory byte, no register and not I; a completed Fx65
\* makes Vi = memory[I + i] for every i <= x and changes no register above
\* x, no memory byte and not I.  In RomRegs the stored bytes keep the
\* original V0 and V1 while both registers are changed, and the load gives
\* both registers their original values back.
C17_StoreLoadRoundTrip ==
  /\ [][StepDone /\ IsMisc(85) =>
          /\ \A a \in Held(memory) \cup Held(memory') \cup (I..(I + InstrX)) :
               Get(memory', a) =
                 IF a >= I /\ a <= I + InstrX THEN V[a - I] ELSE Get(memory, a)
          /\ V' = V /\ I' = I /\ PC' = PC + 2]_vars
  /\ [][StepDone /\ IsMisc(101) =>
          /\ \A i \in 0..15 :
               V'[i] = IF i <= InstrX THEN Get(memory, I + i) ELSE V[i]
          /\ memory' = memory /\ I' = I /\ PC' = PC + 2]_vars
  /\ [](RegsLoaded /\ PC = 518 =>
          Get(memory, 768) = V[0] /\ Get(memory, 769) = V[1])
  /\ [](RegsLoaded /\ PC = 522 =>
          /\ V[0] = (Get(memory, 768) + 1) % 256
          /\ V[1] = (Get(memory, 769) + 9) % 256)
  /\ [](RegsLoaded /\ PC = 524 =>
          /\ V[0] = Get(memory, 768) /\ V[1] = Get(memory, 769)
          /\ I = 768)

C17_Witness ==
  /\ RegsLoaded /\ last.op = "EmulateCycle"
  /\ steps = 6 /\ PC = 524
  /\ I = 768 /\ Get(memory, 768) = 255 /\ Get(memory, 769) = 0
  /\ V[0] = 255 /\ V[1] = 0

\* ------------------------------------------------------------ framebuffer
\* C18: in every reachable state every framebuffer entry is 0 or 1 (the
\* entries the framebuffer holds are inside it and are 1; the rest are 0).
C18_PixelsBinary ==
  /\ Held(display) \subseteq 0..(ScreenWidth * ScreenHeight - 1)
  /\ \A p \in 0..(ScreenWidth * ScreenHeight - 1) : Get(display, p) \in {0, 1}

\* C18 witness: the first draw of RomTwice has lit one pixel.
C18_Witness ==
  /\ TwiceLoaded /\ last.op = "EmulateCycle"
  /\ steps = 4 /\ PC = 520
  /\ \E p \in 0..255 : Get(display, p) = 1 /\ Held(display) = {p}

\* ------------------------------------------------------------ keys
\* C19: SetKey(k, b) with k in 0..15 makes keys[k] = b and changes no other
\* key; with k outside 0..15 it changes no key; either way it changes
\* nothing else of the machine; and no step changes a key.
C19_SetKeyContract ==
  [][/\ Called("SetKey") =>
          /\ keys' = IF last'.key \in 0..15
                     THEN [k \in 0..15 |->
                             IF k = last'.key THEN last'.pressed ELSE keys[k]]
                     ELSE keys
          /\ UNCHANGED << memory, V, I, PC, stack, SP, delayTimer, soundTimer,
                          display, drawFlag, panicked >>
     /\ Called("EmulateCycle") => keys' = keys]_vars

\* C19 witness: SetKey(16, true) has just been ignored by a machine that
\* has run, with key 15 pressed and key 0 not.
C19_Witness ==
  /\ last.op = "SetKey" /\ last.key = 16 /\ last.pressed
  /\ keys[15] /\ ~keys[0]
  /\ steps >= 1

\* ------------------------------------------------------------ timer set and tick
\* C20: a completed Fx15 with Vx = v leaves delayTimer = v - 1 if v > 0 and
\* 0 if v = 0; a completed Fx18 does so for soundTimer; a completed Fx07
\* leaves in Vx the delay timer value of before the step, and the timer
\* itself one lower (or at 0).
C20_SetThenTick ==
  [][/\ StepDone /\ IsMisc(21) =>
          delayTimer' = IF V[InstrX] > 0 THEN V[InstrX] - 1 ELSE 0
     /\ StepDone /\ IsMisc(24) =>
          soundTimer' = IF V[InstrX] > 0 THEN V[InstrX] - 1 ELSE 0
     /\ StepDone /\ IsMisc(7) =>
          /\ V'[InstrX] = delayTimer
          /\ delayTimer' = IF delayTimer > 0 THEN delayTimer - 1 ELSE 0]_vars

\* C20 witness: in RomTimers with V0 = 7, F015 left the delay timer at 6,
\* two steps later it was 4, and F207 has stored 4 and left it at 3.
C20_Witness ==
  /\ TimersLoaded /\ last.op = "EmulateCycle"
  /\ steps = 5 /\ PC = 522
  /\ V[0] = 7 /\ V[2] = 4 /\ delayTimer = 3
====
